---- MODULE Spec2Model ----
(***************************************************************************)
(* Model of the vocabulary spelling quiz: the App shell (src/App.tsx),     *)
(* the QuizScreen component (src/components/QuizScreen.tsx) and the host   *)
(* speech-recognition engine the component drives.                         *)
(*                                                                         *)
(* Texts are sequences of one-character strings, so that trim(),           *)
(* toLowerCase() and the letters-only filter are computed, not assumed.    *)
(***************************************************************************)
EXTENDS Integers, Sequences, FiniteSets, TLC

(* ----------------------------- bounds ---------------------------------- *)
\* SpeechRecognition objects alive (created and not yet collected) at a time.
MaxSessions == 2
\* Dwell timeouts pending at a time.
MaxTimers == 2
\* Result fragments one recognition session delivers.
MaxFrags == 2
\* Words in a list handed to startQuiz directly (SpecShuffle).
MaxWords == 3
\* Events (user actions, timeouts, engine callbacks) in one run.
MaxSteps == 9
\* Result fragments one recognition session delivers (SpecDictation).
MaxHeard == 3
\* Voices in the host's catalog (SpecVoice).
MaxVoices == 3
MaxCalls == 2
MaxLoads == 2
MaxTotal == 40
\* Records in the longest result list (SpecResult).
MaxLong == 200

(* ------------------------------ texts ---------------------------------- *)
LowerCase ==
  <<"a", "b", "c", "d", "e", "f", "g", "h", "i", "j", "k", "l", "m",
    "n", "o", "p", "q", "r", "s", "t", "u", "v", "w", "x", "y", "z">>
UpperCase ==
  <<"A", "B", "C", "D", "E", "F", "G", "H", "I", "J", "K", "L", "M",
    "N", "O", "P", "Q", "R", "S", "T", "U", "V", "W", "X", "Y", "Z">>
LowerLetters == {LowerCase[i] : i \in 1..Len(LowerCase)}
UpperLetters == {UpperCase[i] : i \in 1..Len(UpperCase)}
WhiteSpace == {" "}

\* String.prototype.toLowerCase on one character.
toLowerChar(c) ==
  IF c \in UpperLetters
  THEN LowerCase[CHOOSE i \in 1..Len(UpperCase) : UpperCase[i] = c]
  ELSE c

\* String.prototype.toLowerCase.
toLowerCase(s) == [i \in 1..Len(s) |-> toLowerChar(s[i])]

RECURSIVE trimStart(_)
trimStart(s) ==
  IF s # <<>> /\ Head(s) \in WhiteSpace THEN trimStart(Tail(s)) ELSE s

RECURSIVE trimEnd(_)
trimEnd(s) ==
  IF s # <<>> /\ s[Len(s)] \in WhiteSpace
  THEN trimEnd(SubSeq(s, 1, Len(s) - 1)) ELSE s

\* String.prototype.trim.
trim(s) == trimEnd(trimStart(s))

\* s.replace(/[^a-zA-Z]/g, '')
RECURSIVE lettersOnly(_)
lettersOnly(s) ==
  IF s = <<>> THEN <<>>
  ELSE IF Head(s) \in LowerLetters \cup UpperLetters
       THEN <<Head(s)>> \o lettersOnly(Tail(s))
       ELSE lettersOnly(Tail(s))

\* String.prototype.includes
includes(s, k) ==
  \E i \in 0..(Len(s) - Len(k)) : SubSeq(s, i + 1, i + Len(k)) = k

RECURSIVE concatAll(_)
concatAll(fs) == IF fs = <<>> THEN <<>> ELSE Head(fs) \o concatAll(Tail(fs))

\* Mutant of cleanedInput: only the latest result is taken.
cleanedInput_LatestOnly(frags) == toLowerCase(lettersOnly(frags[Len(frags)]))

\* recognition.onresult: the cleaned running transcript of event.results.
cleanedInput(frags) == toLowerCase(lettersOnly(concatAll(frags)))

(* --------------------------- vocabulary -------------------------------- *)
Cat == [id |-> 1, english |-> <<"c", "a", "t">>]
Dog == [id |-> 2, english |-> <<"D", "o", "g">>]

\* The words of the selected team and lesson, in data order.
availableWords == <<Cat, Dog>>

\* What the learner may type into the input field.
TypedInputs ==
  { <<"c", "a", "t">>,
    <<" ", "C", "a", "t", " ">>,
    <<"c", "t", "a">>,
    <<"d", "o", "g">> }

\* What the learner dictates: the i-th result of a recognition session is the
\* i-th fragment of this script, taken cyclically.
Script == << <<"D", " ", "o">>, <<"G", "!">> >>
fragment(i) == Script[((i - 1) % Len(Script)) + 1]

(* ------------------------------ state ---------------------------------- *)
VARIABLES
  screen,          \* App: AppScreen
  selectedWords,   \* App: words handed to QuizScreen
  quizResults,     \* App: results handed to ResultScreen
  shuffledWords,   \* QuizScreen state of the mounted instance
  currentIndex,
  userInput,
  results,
  feedback,
  isListening,
  recognitionRef,  \* recognitionRef.current: a session slot, or 0 for null
  timers,          \* pending dwell timeouts, with the values their closures hold
  sessions,        \* slot -> SpeechRecognition object, or NoSession
  srSupported,     \* window.SpeechRecognition || window.webkitSpeechRecognition
  lastOp,          \* the handler that ran last, and what it called
  steps,           \* events handled so far
  ssSupported,     \* 'speechSynthesis' in window
  voices,          \* window.speechSynthesis.getVoices()
  voiceGender,     \* the gender speak calls are made with (QuizScreen prop)
  specificVoiceURI, \* the voice URI speak calls are made with, "" for none
  speechRate,      \* QuizScreen state, in tenths
  utterances,      \* the utterances window.speechSynthesis has queued or playing
  promptTimer,     \* the pending timeout of the prompt effect, if any
  promises,        \* the promises getAvailableVoices returned, in call order
  onvoiceschanged, \* speechSynthesis.onvoiceschanged: the call it resolves, or 0
  allVoices        \* SelectionScreen state

appVars == <<screen, selectedWords, quizResults>>
quizVars == <<shuffledWords, currentIndex, userInput, results, feedback,
              isListening, recognitionRef>>
envVars == <<timers, sessions, srSupported>>
speechVars == <<ssSupported, voices, voiceGender, specificVoiceURI, speechRate,
                utterances, promptTimer>>
loadVars == <<promises, onvoiceschanged, allVoices>>
vars == <<appVars, quizVars, envVars, lastOp, steps, speechVars, loadVars>>

mounted == screen = "QUIZ"
currentWord == shuffledWords[currentIndex + 1]

(* ------------------------------ shuffle -------------------------------- *)
\* Mutant of InsertAt: the element is written over its neighbour.
InsertAt_Overwrite(s, k, x) ==
  SubSeq(s, 1, k) \o <<x>> \o SubSeq(s, k + 2, Len(s))

\* s with x inserted after its first k elements.
InsertAt(s, k, x) == SubSeq(s, 1, k) \o <<x>> \o SubSeq(s, k + 1, Len(s))

\* [...words].sort(() => Math.random() - 0.5): the engine sorts a short array
\* by binary insertion; each comparison is decided by the random comparator,
\* so the element being inserted may land at any position of the sorted
\* prefix.  The set of the arrays the sort may return.
RECURSIVE insertionSort(_, _)
insertionSort(sorted, rest) ==
  IF rest = <<>> THEN {sorted}
  ELSE UNION { insertionSort(InsertAt(sorted, k, Head(rest)), Tail(rest)) :
               k \in 0..Len(sorted) }

randomSort(words) == insertionSort(<<>>, words)

(* ------------------------ speech recognition --------------------------- *)
Slots == 1..MaxSessions
NoSession == [status |-> "none", live |-> FALSE, frags |-> <<>>]

\* new SpeechRecognition(), as startListening configures and starts it.  `live`
\* says that the QuizScreen instance its handlers belong to is still mounted.
newRecognition == [status |-> "starting", live |-> TRUE, frags |-> <<>>]

\* An object that has ended is collected once recognitionRef no longer holds it.
collect(ss, ref) ==
  [r \in Slots |-> IF ss[r].status = "ended" /\ r # ref THEN NoSession ELSE ss[r]]

\* recognition.stop() on the session in slot r: a running session still
\* returns what it captured ("stopping"); one that had not started yet has
\* captured nothing and only ends ("closing").
stopRecognition(ss, r) ==
  [ss EXCEPT ![r].status = CASE @ = "starting" -> "closing"
                             [] @ = "running" -> "stopping"
                             [] OTHER -> @]

\* The sessions after stopListening().
sessionsAfterStop ==
  IF recognitionRef # 0
  THEN collect(stopRecognition(sessions, recognitionRef), 0)
  ELSE sessions

\* Mutant of stopListening: the reference is not set to null.
stopListening_KeepRef ==
  /\ sessions' = sessionsAfterStop
  /\ recognitionRef' = recognitionRef
  /\ isListening' = FALSE

\* stopListening(): stop the referenced session, drop the reference,
\* setIsListening(false).
stopListening ==
  /\ sessions' = sessionsAfterStop
  /\ recognitionRef' = 0
  /\ isListening' = FALSE

\* Mutant of startListening: the host's support is not checked.
startListening_NoCheck ==
  /\ \E x \in Slots : collect(sessions, 0)[x].status = "none"
  /\ LET ss == collect(sessions, 0)
         r == CHOOSE x \in Slots : ss[x].status = "none" /\
                \A y \in Slots : ss[y].status = "none" => x <= y
     IN  /\ sessions' = [ss EXCEPT ![r] = newRecognition]
         /\ recognitionRef' = r
  /\ lastOp' = "toggleListening:start"
  /\ UNCHANGED isListening

\* startListening(): alert when the host has no recognition engine, otherwise
\* create a session, install its handlers, reference it and start it.
startListening ==
  IF ~srSupported
  THEN /\ lastOp' = "toggleListening:alert"
       /\ UNCHANGED <<sessions, recognitionRef, isListening>>
  ELSE /\ \E x \in Slots : collect(sessions, 0)[x].status = "none"
       /\ LET ss == collect(sessions, 0)
              r == CHOOSE x \in Slots : ss[x].status = "none" /\
                     \A y \in Slots : ss[y].status = "none" => x <= y
          IN  /\ sessions' = [ss EXCEPT ![r] = newRecognition]
              /\ recognitionRef' = r
       /\ lastOp' = "toggleListening:start"
       /\ UNCHANGED isListening

\* Mutant of toggleListening: starting the microphone empties the input.
toggleListening_ClearInput ==
  /\ mounted
  /\ IF isListening
     THEN stopListening /\ lastOp' = "toggleListening:stop" /\ UNCHANGED userInput
     ELSE startListening /\ userInput' = <<>>
  /\ UNCHANGED <<appVars, shuffledWords, currentIndex, results, feedback>>
  /\ UNCHANGED <<timers, srSupported>>

\* The microphone button.
toggleListening ==
  /\ mounted
  /\ IF isListening
     THEN stopListening /\ lastOp' = "toggleListening:stop"
     ELSE startListening
  /\ UNCHANGED <<appVars, shuffledWords, currentIndex, userInput, results, feedback>>
  /\ UNCHANGED <<timers, srSupported>>

(* ------------------------- App and QuizScreen -------------------------- *)
\* The timeouts `pending` once the mounted instance is gone: nothing cancels
\* them.  Each is marked with how its instance went: "exited", or "replaced"
\* when the onFinish of an earlier instance took the screen.
orphanTimers(pending, fate) ==
  { IF t.owner = "mounted" THEN [t EXCEPT !.owner = fate] ELSE t : t \in pending }

\* The sessions once the mounted instance is gone: the cleanup of the
\* [currentIndex] effect ran stopListening(), and the handlers of the
\* instance's sessions now call the setters of an unmounted component.
orphanSessions ==
  [r \in Slots |->
     IF sessionsAfterStop[r].status = "none" THEN NoSession
     ELSE [sessionsAfterStop[r] EXCEPT !.live = FALSE, !.frags = <<>>]]

\* A QuizScreen leaves the tree.
unmountQuiz(pending, fate) ==
  /\ sessions' = orphanSessions
  /\ timers' = orphanTimers(pending, fate)
  /\ shuffledWords' = <<>>
  /\ currentIndex' = 0
  /\ userInput' = <<>>
  /\ results' = <<>>
  /\ feedback' = "idle"
  /\ isListening' = FALSE
  /\ recognitionRef' = 0

\* App.startQuiz followed by the first render of the new QuizScreen, whose
\* state initialisers run then.
startQuiz(words) ==
  /\ selectedWords' = words
  /\ screen' = "QUIZ"
  /\ shuffledWords' \in randomSort(words)
  /\ currentIndex' = 0
  /\ userInput' = <<>>
  /\ results' = <<>>
  /\ feedback' = "idle"
  /\ isListening' = FALSE
  /\ recognitionRef' = 0
  /\ lastOp' = "startQuiz"
  /\ UNCHANGED <<quizResults, envVars>>

\* Mutant of handleStart: the quiz is started whatever is ticked.
handleStart_NoCheck(checked) ==
  /\ screen = "SELECTION"
  /\ startQuiz(SelectSeq(availableWords, LAMBDA w : w.id \in checked))

\* SelectionScreen.handleStart with the words of `checked` ticked.
handleStart(checked) ==
  /\ screen = "SELECTION"
  /\ LET wordsToQuiz == SelectSeq(availableWords, LAMBDA w : w.id \in checked)
     IN  IF Len(wordsToQuiz) > 0
         THEN startQuiz(wordsToQuiz)
         ELSE /\ lastOp' = "handleStart:nothing"
              /\ UNCHANGED <<appVars, quizVars, envVars>>

\* The input field's disabled attribute.
inputDisabled == feedback # "idle" \/ isListening

\* Mutant of submitDisabled: the input is not trimmed.
submitDisabled_NoTrim == (userInput = <<>> /\ ~isListening) \/ feedback # "idle"

\* The submit button's disabled attribute.
submitDisabled == (trim(userInput) = <<>> /\ ~isListening) \/ feedback # "idle"

\* The input field's onChange, which an enabled field fires.
onChange(text) ==
  /\ mounted
  /\ ~inputDisabled
  /\ userInput' = text
  /\ lastOp' = "onChange"
  /\ UNCHANGED <<appVars, shuffledWords, currentIndex, results, feedback,
                 isListening, recognitionRef, envVars>>

\* Mutant of isCorrectAnswer: the input is not trimmed.
isCorrectAnswer_NoTrim(input, target) ==
  toLowerCase(input) = toLowerCase(trim(target))

\* handleSubmit: userInput.trim().toLowerCase() === english.trim().toLowerCase()
isCorrectAnswer(input, target) ==
  toLowerCase(trim(input)) = toLowerCase(trim(target))

\* The handle setTimeout returns: the least one not in use.
freeTimerId ==
  CHOOSE i \in 1..MaxTimers :
    /\ \A t \in timers : t.id # i
    /\ \A j \in 1..(i - 1) : \E t \in timers : t.id = j

\* handleSubmit past its guard: stop the microphone, score, record, and
\* schedule the dwell timeout, whose closure holds this render's values.
acceptSubmit ==
  LET isCorrect == isCorrectAnswer(userInput, currentWord.english)
      newResult == [word |-> currentWord, userAnswer |-> userInput,
                    isCorrect |-> isCorrect]
  IN  /\ Cardinality(timers) < MaxTimers
      /\ stopListening
      /\ feedback' = IF isCorrect THEN "correct" ELSE "wrong"
      /\ results' = Append(results, newResult)
      /\ timers' = timers \cup
           {[id |-> freeTimerId, owner |-> "mounted", currentIndex |-> currentIndex,
             shuffledWords |-> shuffledWords, results |-> results,
             newResult |-> newResult]}
      /\ lastOp' = "handleSubmit"
      /\ UNCHANGED <<appVars, shuffledWords, currentIndex, userInput, srSupported>>

\* Mutant of handleSubmit: the feedback guard is missing.
handleSubmit_NoGuard ==
  /\ mounted
  /\ acceptSubmit

\* handleSubmit, the form's onSubmit.  It is taken as callable whenever the
\* QuizScreen is mounted: its own guard is what the model exercises.
handleSubmit ==
  /\ mounted
  /\ IF feedback # "idle"
     THEN /\ lastOp' = "handleSubmit:ignored"
          /\ UNCHANGED <<appVars, quizVars, envVars>>
     ELSE acceptSubmit

\* App.finishQuiz, reached through the onFinish prop from the callback t; the
\* QuizScreen on screen, if any, is unmounted by the change of screen.
finishQuiz(t, res) ==
  /\ quizResults' = res
  /\ screen' = "RESULT"
  /\ IF mounted
     THEN unmountQuiz(timers \ {t}, "replaced")
     ELSE /\ timers' = timers \ {t}
          /\ UNCHANGED <<quizVars, sessions>>
  /\ lastOp' = CASE t.owner = "mounted" -> "dwell:onFinish"
                 [] t.owner = "exited" -> "dwell:onFinish:exited"
                 [] OTHER -> "dwell:onFinish:replaced"
  /\ UNCHANGED <<selectedWords, srSupported>>

\* Mutant of nextWord: the index is moved on by two.
nextWord_SkipOne(t) ==
  /\ timers' = timers \ {t}
  /\ IF t.owner = "mounted"
     THEN /\ feedback' = "idle"
          /\ userInput' = <<>>
          /\ currentIndex' = currentIndex + 2
          /\ stopListening
          /\ UNCHANGED <<shuffledWords, results>>
     ELSE UNCHANGED <<quizVars, sessions>>
  /\ lastOp' = IF t.owner = "mounted" THEN "dwell:next" ELSE "dwell:stale"
  /\ UNCHANGED <<appVars, srSupported>>

\* Mutant of nextWord: setUserInput('') is not called.
nextWord_KeepInput(t) ==
  /\ timers' = timers \ {t}
  /\ IF t.owner = "mounted"
     THEN /\ feedback' = "idle"
          /\ currentIndex' = currentIndex + 1
          /\ stopListening
          /\ UNCHANGED <<shuffledWords, results, userInput>>
     ELSE UNCHANGED <<quizVars, sessions>>
  /\ lastOp' = IF t.owner = "mounted" THEN "dwell:next" ELSE "dwell:stale"
  /\ UNCHANGED <<appVars, srSupported>>

\* Mutant of nextWord: setCurrentIndex is not called.
nextWord_NoAdvance(t) ==
  /\ timers' = timers \ {t}
  /\ IF t.owner = "mounted"
     THEN /\ feedback' = "idle"
          /\ userInput' = <<>>
          /\ UNCHANGED <<shuffledWords, currentIndex, results, isListening,
                         recognitionRef, sessions>>
     ELSE UNCHANGED <<quizVars, sessions>>
  /\ lastOp' = IF t.owner = "mounted" THEN "dwell:next" ELSE "dwell:stale"
  /\ UNCHANGED <<appVars, srSupported>>

\* The setters of the dwell callback, then the re-render: currentIndex changed,
\* so the cleanup of the [currentIndex] effect runs stopListening().  The
\* setters of an instance that is no longer mounted do nothing.
nextWord(t) ==
  /\ timers' = timers \ {t}
  /\ IF t.owner = "mounted"
     THEN /\ feedback' = "idle"
          /\ userInput' = <<>>
          /\ currentIndex' = currentIndex + 1
          /\ stopListening
          /\ UNCHANGED <<shuffledWords, results>>
     ELSE UNCHANGED <<quizVars, sessions>>
  /\ lastOp' = IF t.owner = "mounted" THEN "dwell:next" ELSE "dwell:stale"
  /\ UNCHANGED <<appVars, srSupported>>

\* Mutant of dwellCallback: the last index is compared off by one.
dwellCallback_OffByOne(t) ==
  IF t.currentIndex < Len(t.shuffledWords)
  THEN nextWord(t)
  ELSE finishQuiz(t, Append(t.results, t.newResult))

\* Mutant of dwellCallback: onFinish gets the results of the render that
\* scheduled the timeout, without the record of the last item.
dwellCallback_StaleResults(t) ==
  IF t.currentIndex < Len(t.shuffledWords) - 1
  THEN nextWord(t)
  ELSE finishQuiz(t, t.results)

\* The callback handleSubmit passed to setTimeout, run with the values its
\* closure captured.
dwellCallback(t) ==
  IF t.currentIndex < Len(t.shuffledWords) - 1
  THEN nextWord(t)
  ELSE finishQuiz(t, Append(t.results, t.newResult))

\* A dwell timeout elapses.
dwellTimeout(t) ==
  /\ t \in timers
  /\ dwellCallback(t)

\* App.restartApp.
restartApp ==
  /\ selectedWords' = <<>>
  /\ quizResults' = <<>>
  /\ screen' = "SELECTION"

\* The exit button of the QuizScreen: onExit is restartApp.
onExit ==
  /\ mounted
  /\ restartApp
  /\ unmountQuiz(timers, "exited")
  /\ lastOp' = "onExit"
  /\ UNCHANGED srSupported

\* The restart button of the ResultScreen: onRestart is restartApp.
onRestart ==
  /\ screen = "RESULT"
  /\ restartApp
  /\ lastOp' = "onRestart"
  /\ UNCHANGED <<quizVars, envVars>>

(* ----------------------------- ResultScreen ---------------------------- *)
\* The numbers of the ResultScreen are IEEE 754 doubles.  A positive double is
\* [m, x]: m the bits of its significand, the first of them 1, and x the
\* exponent of the last bit, so that its value is m * 2^x.
Significand == 53
NaN == "NaN"

\* The bits of n, the most significant first; none for 0.
RECURSIVE bits(_)
bits(n) == IF n = 0 THEN <<>> ELSE bits(n \div 2) \o <<n % 2>>

\* The number whose bits are b.
RECURSIVE bitsValue(_)
bitsValue(b) ==
  IF b = <<>> THEN 0 ELSE 2 * bitsValue(SubSeq(b, 1, Len(b) - 1)) + b[Len(b)]

\* The bits of b * k + carry, for the pair s of b and carry.
RECURSIVE carried(_, _)
carried(s, k) ==
  IF s[1] = <<>> THEN bits(s[2])
  ELSE LET v == s[1][Len(s[1])] * k + s[2]
       IN  carried(<<SubSeq(s[1], 1, Len(s[1]) - 1), v \div 2>>, k) \o <<v % 2>>

\* The bits of b * k + carry.
timesPlus(b, k, carry) == carried(<<b, carry>>, k)

\* The first n bits of r / t after the binary point, for r < t, and after
\* them a 1 if a remainder is left.
RECURSIVE quotientBits(_, _, _)
quotientBits(r, t, n) ==
  IF n = 0 THEN <<IF r > 0 THEN 1 ELSE 0>>
  ELSE LET b == IF 2 * r >= t THEN 1 ELSE 0
       IN  <<b>> \o quotientBits(2 * r - b * t, t, n - 1)

\* The double nearest to b * 2^x, for bits b that start with 1: b is cut to
\* the significand and rounded to nearest, a tie to the even significand.
roundToDouble(b, x) ==
  IF Len(b) <= Significand
  THEN [m |-> b \o [i \in 1..(Significand - Len(b)) |-> 0],
        x |-> x - (Significand - Len(b))]
  ELSE LET kept == SubSeq(b, 1, Significand)
           up == /\ b[Significand + 1] = 1
                 /\ \/ \E i \in (Significand + 2)..Len(b) : b[i] = 1
                    \/ kept[Significand] = 1
           sum == IF up THEN timesPlus(kept, 1, 1) ELSE kept
       IN  [m |-> SubSeq(sum, 1, Significand),
            x |-> x + (Len(b) - Significand) + (Len(sum) - Significand)]

\* c doubled until it is no less than t, and how many times it was doubled.
RECURSIVE scaled(_, _)
scaled(c, t) == IF c >= t THEN c ELSE scaled(2 * c, t)
RECURSIVE doublings(_, _)
doublings(c, t) == IF c >= t THEN 0 ELSE 1 + doublings(2 * c, t)

\* c / t in doubles, for 0 < c <= t.
divide(c, t) ==
  roundToDouble(<<1>> \o quotientBits(scaled(c, t) - t, t, Significand),
                0 - doublings(c, t) - Significand - 1)

\* d * 100 in doubles.
times100(d) == roundToDouble(timesPlus(d.m, 100, 0), d.x)

\* Math.round(d) for a double below 2^53: the integer part, and one more if
\* the fraction is a half or more.
mathRound(d) ==
  LET point == Significand + d.x
  IN  IF point < 0 THEN 0
      ELSE bitsValue(SubSeq(d.m, 1, point))
           + (IF point < Significand THEN d.m[point + 1] ELSE 0)

\* The ResultScreen is rendered with results = quizResults.
correctCount == Cardinality({i \in 1..Len(quizResults) : quizResults[i].isCorrect})
total == Len(quizResults)

\* Mutant of percentage: the ratio is not scaled to a percentage.
percentage_NoScale == (2 * correctCount + total) \div (2 * total)

\* Math.round((correctCount / total) * 100); NaN for an empty list, as 0 / 0
\* is.
percentage ==
  IF total = 0 THEN NaN
  ELSE IF correctCount = 0 THEN 0
  ELSE mathRound(times100(divide(correctCount, total)))

\* Mutant of isPerfect: 99 percent is perfect too.
isPerfect_From99 == total # 0 /\ percentage >= 99

\* Every comparison with NaN is false.
isPerfect == total # 0 /\ percentage = 100
isBad == total # 0 /\ percentage < 80

\* What the ResultScreen shows and plays: the win sound and trophy, the lose
\* sound, or neither.
outcomeClass ==
  IF isPerfect THEN "Perfect" ELSE IF isBad THEN "Poor" ELSE "Normal"

(* --------------------- recognition engine callbacks -------------------- *)
\* recognition.onstart
onstart(r) ==
  /\ sessions[r].status = "starting"
  /\ sessions' = [sessions EXCEPT ![r].status = "running"]
  /\ isListening' = IF sessions[r].live THEN TRUE ELSE isListening
  /\ lastOp' = "onstart"
  /\ UNCHANGED <<appVars, shuffledWords, currentIndex, userInput, results,
                 feedback, recognitionRef, timers, srSupported>>

\* recognition.onresult: event.results has grown by the fragment f, of at
\* most max the session delivers.  After stop() the engine still returns what
\* it captured so far.  The handler of a session whose instance is unmounted
\* has no effect.
transcribe(r, f, max) ==
  /\ sessions[r].status \in {"running", "stopping"}
  /\ sessions[r].live
  /\ Len(sessions[r].frags) < max
  /\ LET frags == Append(sessions[r].frags, f)
     IN  /\ sessions' = [sessions EXCEPT ![r].frags = frags]
         /\ userInput' = cleanedInput(frags)
  /\ lastOp' = "onresult"
  /\ UNCHANGED <<appVars, shuffledWords, currentIndex, results, feedback,
                 isListening, recognitionRef, timers, srSupported>>

\* recognition.onresult, the learner dictating the script.
onresult(r) == transcribe(r, fragment(Len(sessions[r].frags) + 1), MaxFrags)

\* Mutant of onerror: setIsListening(false) is not called.
onerror_NoReset(r) ==
  /\ sessions[r].status \in {"starting", "running"}
  /\ sessions' = [sessions EXCEPT ![r].status = "closing", ![r].frags = <<>>]
  /\ lastOp' = "onerror"
  /\ UNCHANGED <<appVars, quizVars, timers, srSupported>>

\* recognition.onerror; the engine then only ends the session.
onerror(r) ==
  /\ sessions[r].status \in {"starting", "running"}
  /\ sessions' = [sessions EXCEPT ![r].status = "closing", ![r].frags = <<>>]
  /\ isListening' = IF sessions[r].live THEN FALSE ELSE isListening
  /\ lastOp' = "onerror"
  /\ UNCHANGED <<appVars, shuffledWords, currentIndex, userInput, results,
                 feedback, recognitionRef, timers, srSupported>>

\* recognition.onend: after stop(), after an error, or on the engine's own
\* silence timeout.
onend(r) ==
  /\ sessions[r].status \in {"running", "stopping", "closing"}
  /\ sessions' = collect([sessions EXCEPT ![r].status = "ended", ![r].frags = <<>>],
                         recognitionRef)
  /\ isListening' = IF sessions[r].live THEN FALSE ELSE isListening
  /\ lastOp' = "onend"
  /\ UNCHANGED <<appVars, shuffledWords, currentIndex, userInput, results,
                 feedback, recognitionRef, timers, srSupported>>

(* ---------------------------- speech output ---------------------------- *)
\* The maleKeywords of speakWord.
maleKeywords ==
  { <<"m", "a", "l", "e">>,
    <<"d", "a", "v", "i", "d">>,
    <<"d", "a", "n", "i", "e", "l">>,
    <<"m", "a", "r", "k">>,
    <<"g", "u", "y">>,
    <<"r", "y", "a", "n">>,
    <<"a", "n", "d", "r", "e", "w">>,
    <<"c", "h", "r", "i", "s", "t", "o", "p", "h", "e", "r">>,
    <<"e", "r", "i", "c">>,
    <<"g", "e", "o", "r", "g", "e">>,
    <<"r", "o", "g", "e", "r">>,
    <<"s", "e", "a", "n">>,
    <<"b", "r", "i", "a", "n">>,
    <<"m", "a", "t", "t", "h", "e", "w">>,
    <<"a", "l", "e", "x">>,
    <<"f", "r", "e", "d">>,
    <<"t", "o", "m">>,
    <<"j", "u", "n", "i", "o", "r">>,
    <<"r", "a", "l", "p", "h">>,
    <<"a", "l", "b", "e", "r", "t">>,
    <<"b", "r", "u", "c", "e">>,
    <<"j", "a", "m", "e", "s">> }

\* The femaleKeywords of speakWord.
femaleKeywords ==
  { <<"f", "e", "m", "a", "l", "e">>,
    <<"z", "i", "r", "a">>,
    <<"s", "a", "m", "a", "n", "t", "h", "a">>,
    <<"g", "o", "o", "g", "l", "e", " ", "u", "s", " ", "e", "n", "g", "l", "i", "s", "h">>,
    <<"g", "o", "o", "g", "l", "e", " ", "u", "k", " ", "e", "n", "g", "l", "i", "s", "h", " ", "f", "e", "m", "a", "l", "e">>,
    <<"v", "i", "c", "t", "o", "r", "i", "a">>,
    <<"k", "a", "r", "e", "n">>,
    <<"m", "o", "i", "r", "a">>,
    <<"f", "i", "o", "n", "a">> }

\* No voice: the undefined of speakWord, the null of utterance.voice.
NoVoice == [voiceURI |-> "", name |-> <<>>, lang |-> <<>>]

\* Array.prototype.find with the test of membership in `wanted`: the first
\* voice of vs that is in wanted, or NoVoice.
find(vs, wanted) ==
  IF \E i \in 1..Len(vs) : vs[i] \in wanted
  THEN vs[CHOOSE i \in 1..Len(vs) :
            vs[i] \in wanted /\ \A j \in 1..(i - 1) : vs[j] \notin wanted]
  ELSE NoVoice

voicesOf(vs) == {vs[i] : i \in 1..Len(vs)}

\* v.lang.includes('en') && keywords.some(keyword => v.name.toLowerCase().includes(keyword))
keywordVoices(vs, keywords) ==
  {v \in voicesOf(vs) :
     /\ includes(v.lang, <<"e", "n">>)
     /\ \E keyword \in keywords : includes(toLowerCase(v.name), keyword)}

\* Step 1 of speakWord: the voice with the given URI, when a URI is given.
voiceByURI(vs, uri) ==
  IF uri # "" THEN find(vs, {v \in voicesOf(vs) : v.voiceURI = uri}) ELSE NoVoice

\* Step 2 of speakWord: the keyword heuristic of the gender, when step 1
\* found nothing.
voiceByKeyword(vs, gender, uri) ==
  IF voiceByURI(vs, uri) # NoVoice THEN voiceByURI(vs, uri)
  ELSE IF gender = "male" THEN find(vs, keywordVoices(vs, maleKeywords))
  ELSE find(vs, keywordVoices(vs, femaleKeywords))

\* Mutant of foundMaleVoice: a voice found by the male keywords does not count.
foundMaleVoice_URIOnly(vs, gender, uri) ==
  voiceByURI(vs, uri) # NoVoice

\* foundMaleVoice of speakWord, after step 2.
foundMaleVoice(vs, gender, uri) ==
  \/ voiceByURI(vs, uri) # NoVoice
  \/ gender = "male" /\ voiceByKeyword(vs, gender, uri) # NoVoice

\* Fallback 3 of speakWord: any voice whose lang is en-US.
voiceByUS(vs, gender, uri) ==
  IF voiceByKeyword(vs, gender, uri) # NoVoice THEN voiceByKeyword(vs, gender, uri)
  ELSE find(vs, {v \in voicesOf(vs) : v.lang = <<"e", "n", "-", "U", "S">>})

\* Mutant of selectedVoice: the keyword heuristic comes before the given URI.
selectedVoice_KeywordFirst(vs, gender, uri) ==
  IF voiceByKeyword(vs, gender, "") # NoVoice THEN voiceByKeyword(vs, gender, "")
  ELSE IF voiceByUS(vs, gender, uri) # NoVoice THEN voiceByUS(vs, gender, uri)
  ELSE find(vs, {v \in voicesOf(vs) : includes(v.lang, <<"e", "n">>)})

\* selectedVoice of speakWord after fallback 4: any voice whose lang
\* includes 'en'.
selectedVoice(vs, gender, uri) ==
  IF voiceByUS(vs, gender, uri) # NoVoice THEN voiceByUS(vs, gender, uri)
  ELSE find(vs, {v \in voicesOf(vs) : includes(v.lang, <<"e", "n">>)})

\* Mutant of newUtterance: the voice of the utterance that is still pending is
\* kept.
newUtterance_Sticky(text, gender, uri, rate) ==
  [text |-> text,
   lang |-> <<"e", "n", "-", "U", "S">>,
   rate |-> rate,
   pitch |-> IF gender = "male" /\ ~foundMaleVoice(voices, gender, uri) THEN 7 ELSE 10,
   voice |-> IF utterances # <<>> THEN utterances[1].voice
             ELSE selectedVoice(voices, gender, uri)]

\* The utterance speakWord builds; rate and pitch in tenths.
newUtterance(text, gender, uri, rate) ==
  [text |-> text,
   lang |-> <<"e", "n", "-", "U", "S">>,
   rate |-> rate,
   pitch |-> IF gender = "male" /\ ~foundMaleVoice(voices, gender, uri) THEN 7 ELSE 10,
   voice |-> selectedVoice(voices, gender, uri)]

\* Mutant of speakWord: the pending speech is not cancelled.
speakWord_NoCancel(text, gender, uri, rate) ==
  IF ~ssSupported
  THEN UNCHANGED utterances
  ELSE utterances' = Append(utterances, newUtterance(text, gender, uri, rate))

\* Mutant of speakWord: the host's support is not checked.
speakWord_NoCheck(text, gender, uri, rate) ==
  utterances' = <<newUtterance(text, gender, uri, rate)>>

\* speakWord: nothing without speech synthesis; otherwise cancel() empties the
\* queue and speak() puts the new utterance in it.
speakWord(text, gender, uri, rate) ==
  IF ~ssSupported
  THEN UNCHANGED utterances
  ELSE utterances' = <<newUtterance(text, gender, uri, rate)>>

(* --------------------------- specification ----------------------------- *)
\* A host with speech synthesis whose voices are not loaded yet, the settings
\* at their defaults, nothing said and no prompt pending.
speechIdle ==
  /\ ssSupported = TRUE
  /\ voices = <<>>
  /\ voiceGender = "female"
  /\ specificVoiceURI = ""
  /\ speechRate = 8
  /\ utterances = <<>>
  /\ promptTimer = {}

\* The SelectionScreen has not asked for the voices.
loadIdle ==
  /\ promises = <<>>
  /\ onvoiceschanged = 0
  /\ allVoices = <<>>

quizIdle ==
  /\ loadIdle
  /\ screen = "SELECTION"
  /\ selectedWords = <<>>
  /\ quizResults = <<>>
  /\ shuffledWords = <<>>
  /\ currentIndex = 0
  /\ userInput = <<>>
  /\ results = <<>>
  /\ feedback = "idle"
  /\ isListening = FALSE
  /\ recognitionRef = 0
  /\ timers = {}
  /\ sessions = [r \in Slots |-> NoSession]
  /\ srSupported \in BOOLEAN
  /\ lastOp = "init"
  /\ steps = 0

Init == quizIdle /\ speechIdle

\* The speech output, which no handler of the quiz reads back, is left aside,
\* and so is the voice list of the SelectionScreen.
Silent == UNCHANGED <<speechVars, loadVars>>

\* One more event is handled.
Tick ==
  /\ steps < MaxSteps
  /\ steps' = steps + 1

Ids == {availableWords[i].id : i \in 1..Len(availableWords)}

Next ==
  \/ \E checked \in SUBSET Ids : Tick /\ Silent /\ handleStart(checked)
  \/ \E text \in TypedInputs : Tick /\ Silent /\ onChange(text)
  \/ Tick /\ Silent /\ toggleListening
  \/ Tick /\ Silent /\ handleSubmit
  \/ \E t \in timers : Tick /\ Silent /\ dwellTimeout(t)
  \/ Tick /\ Silent /\ onExit
  \/ Tick /\ Silent /\ onRestart
  \/ \E r \in Slots : Tick /\ Silent /\ onstart(r)
  \/ \E r \in Slots : Tick /\ Silent /\ onresult(r)
  \/ \E r \in Slots : Tick /\ Silent /\ onerror(r)
  \/ \E r \in Slots : Tick /\ Silent /\ onend(r)

Spec == Init /\ [][Next]_vars

(* ------------------ the shuffle on arbitrary word lists ---------------- *)
Tag == [id |-> 3, english |-> <<"t", "a", "g">>]
WordPool == {Cat, Dog, Tag}

\* The non-empty word lists of at most MaxWords words, repeats included.
WordLists == UNION {[1..n -> WordPool] : n \in 1..MaxWords}

\* App.startQuiz called with any non-empty list.
startSession ==
  /\ screen = "SELECTION"
  /\ \E words \in WordLists : startQuiz(words)

NextShuffle ==
  \/ Tick /\ Silent /\ startSession
  \/ Tick /\ Silent /\ onExit

SpecShuffle == Init /\ [][NextShuffle]_vars

(* ------------------- the form as the browser submits it ---------------- *)
\* What the learner may leave in the input field, the empty and the blank
\* text included.
FormInputs ==
  { <<>>,
    <<" ">>,
    <<"c", "a", "t">>,
    <<"d", "o", "g">> }

\* The learner presses the submit button, or Enter in the input field: the
\* browser submits the form, and so calls handleSubmit, only when the form's
\* submit button is not disabled.
submitForm ==
  /\ mounted
  /\ IF submitDisabled
     THEN /\ lastOp' = "submit:disabled"
          /\ UNCHANGED <<appVars, quizVars, envVars>>
     ELSE handleSubmit

NextForm ==
  \/ \E checked \in SUBSET Ids : Tick /\ Silent /\ handleStart(checked)
  \/ \E text \in FormInputs : Tick /\ Silent /\ onChange(text)
  \/ Tick /\ Silent /\ toggleListening
  \/ Tick /\ Silent /\ submitForm
  \/ \E t \in timers : Tick /\ Silent /\ dwellTimeout(t)
  \/ Tick /\ Silent /\ onExit
  \/ Tick /\ Silent /\ onRestart
  \/ \E r \in Slots : Tick /\ Silent /\ onstart(r)
  \/ \E r \in Slots : Tick /\ Silent /\ onresult(r)
  \/ \E r \in Slots : Tick /\ Silent /\ onerror(r)
  \/ \E r \in Slots : Tick /\ Silent /\ onend(r)

SpecForm == Init /\ [][NextForm]_vars

(* ------------------- dictation of arbitrary fragments ------------------ *)
\* The transcripts the engine may return as one result.
Fragments ==
  { <<"A", " ">>,
    <<"P", " ", "P">>,
    <<"L", "E", "!">>,
    <<"d">> }

\* recognition.onresult with any fragment as the new result.
hear(r) == \E f \in Fragments : transcribe(r, f, MaxHeard)

NextDictation ==
  \/ \E checked \in SUBSET Ids : Tick /\ Silent /\ handleStart(checked)
  \/ \E text \in TypedInputs : Tick /\ Silent /\ onChange(text)
  \/ Tick /\ Silent /\ toggleListening
  \/ \E r \in Slots : Tick /\ Silent /\ onstart(r)
  \/ \E r \in Slots : Tick /\ Silent /\ hear(r)
  \/ \E r \in Slots : Tick /\ Silent /\ onerror(r)
  \/ \E r \in Slots : Tick /\ Silent /\ onend(r)

SpecDictation == Init /\ [][NextDictation]_vars

(* -------------------- speakWord on arbitrary catalogs ------------------ *)
\* Voices a host may offer: name and lang as the host reports them.
David ==
  [voiceURI |-> "urn:david",
   name |-> <<"M", "i", "c", "r", "o", "s", "o", "f", "t", " ", "D", "a", "v", "i", "d">>,
   lang |-> <<"e", "n", "-", "U", "S">>]
Zira ==
  [voiceURI |-> "urn:zira",
   name |-> <<"M", "i", "c", "r", "o", "s", "o", "f", "t", " ", "Z", "i", "r", "a">>,
   lang |-> <<"e", "n", "-", "U", "S">>]
UKFemale ==
  [voiceURI |-> "urn:ukfemale",
   name |-> <<"G", "o", "o", "g", "l", "e", " ", "U", "K", " ", "E", "n", "g", "l", "i", "s", "h", " ", "F", "e", "m", "a", "l", "e">>,
   lang |-> <<"e", "n", "-", "G", "B">>]
Kate ==
  [voiceURI |-> "urn:kate",
   name |-> <<"K", "a", "t", "e">>,
   lang |-> <<"e", "n", "-", "G", "B">>]
MeiJia ==
  [voiceURI |-> "urn:meijia",
   name |-> <<"M", "e", "i", "-", "J", "i", "a">>,
   lang |-> <<"z", "h", "-", "T", "W">>]
Empar ==
  [voiceURI |-> "urn:empar",
   name |-> <<"E", "m", "p", "a", "r">>,
   lang |-> <<"c", "a", "-", "E", "S", "-", "v", "a", "l", "e", "n", "c", "i", "a">>]

VoicePool == {David, Zira, UKFemale, Kate, MeiJia, Empar}

\* The catalogs of at most MaxVoices voices, each voice at most once.
Catalogs ==
  {vs \in UNION {[1..n -> VoicePool] : n \in 0..MaxVoices} :
     \A i, j \in 1..Len(vs) : vs[i] = vs[j] => i = j}

\* The URIs a caller may pass: none, that of a voice, or one no voice has.
URIs == {""} \cup {v.voiceURI : v \in VoicePool} \cup {"urn:gone"}

\* "Hello, I am ready for the test."
Hello ==
  <<"H", "e", "l", "l", "o", ",", " ", "I", " ", "a", "m", " ", "r", "e", "a", "d", "y", " ", "f", "o", "r", " ", "t", "h", "e", " ", "t", "e", "s", "t", ".">>

InitVoice ==
  /\ quizIdle
  /\ ssSupported \in BOOLEAN
  /\ voices \in Catalogs
  /\ voiceGender \in {"male", "female"}
  /\ specificVoiceURI \in URIs
  /\ speechRate = 8
  /\ utterances = <<>>
  /\ promptTimer = {}

\* SelectionScreen.testVoice: speakWord with the chosen gender and URI, and the
\* default rate.
testVoice ==
  /\ screen = "SELECTION"
  /\ speakWord(Hello, voiceGender, specificVoiceURI, 8)
  /\ lastOp' = "testVoice"
  /\ UNCHANGED <<appVars, quizVars, envVars>>
  /\ UNCHANGED <<loadVars, ssSupported, voices, voiceGender, specificVoiceURI, speechRate,
                 promptTimer>>

\* The utterance that is playing comes to its end.
utteranceEnd ==
  /\ utterances # <<>>
  /\ utterances' = Tail(utterances)
  /\ lastOp' = "utteranceEnd"
  /\ UNCHANGED <<appVars, quizVars, envVars>>
  /\ UNCHANGED <<loadVars, ssSupported, voices, voiceGender, specificVoiceURI, speechRate,
                 promptTimer>>

\* The catalog bounds the runs: the events are not counted.
NextVoice ==
  \/ testVoice /\ UNCHANGED steps
  \/ utteranceEnd /\ UNCHANGED steps

SpecVoice == InitVoice /\ [][NextVoice]_vars

(* ----------------------- the quiz with its speech ---------------------- *)
\* The prompt effect of the QuizScreen after a render.  The effect runs on
\* mount and when currentIndex, currentWord, feedback, voiceGender,
\* specificVoiceURI or speechRate changed: its cleanup clears the pending
\* timeout, and it sets a new one of 500 ms only while feedback is idle.  The
\* cleanup also runs on unmount.
\* Mutant of promptEffect: the cleanup does not clear the timeout when the
\* feedback leaves idle.
promptEffect_NoCleanup ==
  promptTimer' =
    IF ~mounted' THEN {}
    ELSE IF \/ ~mounted
            \/ <<currentIndex, shuffledWords, feedback>>' # <<currentIndex, shuffledWords, feedback>>
            \/ <<voiceGender, specificVoiceURI, speechRate>>' #
                 <<voiceGender, specificVoiceURI, speechRate>>
         THEN IF feedback' = "idle"
              THEN {[text |-> shuffledWords'[currentIndex' + 1].english,
                     gender |-> voiceGender', uri |-> specificVoiceURI',
                     rate |-> speechRate']}
              ELSE promptTimer
         ELSE promptTimer

promptEffect ==
  promptTimer' =
    IF ~mounted' THEN {}
    ELSE IF \/ ~mounted
            \/ <<currentIndex, shuffledWords, feedback>>' # <<currentIndex, shuffledWords, feedback>>
            \/ <<voiceGender, specificVoiceURI, speechRate>>' #
                 <<voiceGender, specificVoiceURI, speechRate>>
         THEN IF feedback' = "idle"
              THEN {[text |-> shuffledWords'[currentIndex' + 1].english,
                     gender |-> voiceGender', uri |-> specificVoiceURI',
                     rate |-> speechRate']}
              ELSE {}
         ELSE promptTimer

\* The render after a handler that neither speaks nor changes the settings.
rendered ==
  /\ UNCHANGED <<loadVars, ssSupported, voices, voiceGender, specificVoiceURI, speechRate,
                 utterances>>
  /\ promptEffect

\* SelectionScreen.handleStart with the gender and the voice chosen there:
\* the URI is passed on for the male gender only; App.startQuiz stores both,
\* and the new QuizScreen starts at the default rate.
handleStartWithVoice(checked, gender, uri) ==
  /\ handleStart(checked)
  /\ IF screen' = "QUIZ"
     THEN /\ voiceGender' = gender
          /\ specificVoiceURI' = IF gender = "male" /\ uri # "" THEN uri ELSE ""
          /\ speechRate' = 8
     ELSE UNCHANGED <<voiceGender, specificVoiceURI, speechRate>>
  /\ promptEffect
  /\ UNCHANGED <<loadVars, ssSupported, voices, utterances>>

\* The timeout of the prompt effect elapses: it speaks the word of its render.
promptTimeout ==
  /\ mounted
  /\ \E t \in promptTimer : speakWord(t.text, t.gender, t.uri, t.rate)
  /\ promptTimer' = {}
  /\ lastOp' = "prompt"
  /\ UNCHANGED <<appVars, quizVars, envVars>>
  /\ UNCHANGED <<loadVars, ssSupported, voices, voiceGender, specificVoiceURI, speechRate>>

\* handleSpeakAgain, the loudspeaker button.
handleSpeakAgain ==
  /\ mounted
  /\ IF feedback # "idle"
     THEN /\ lastOp' = "handleSpeakAgain:ignored"
          /\ UNCHANGED utterances
     ELSE /\ speakWord(currentWord.english, voiceGender, specificVoiceURI, speechRate)
          /\ lastOp' = "handleSpeakAgain"
  /\ UNCHANGED <<appVars, quizVars, envVars>>
  /\ UNCHANGED <<loadVars, ssSupported, voices, voiceGender, specificVoiceURI, speechRate,
                 promptTimer>>

\* A speed button: setSpeechRate(rate), then speakWord at that rate.
setSpeechRate(rate) ==
  /\ mounted
  /\ speechRate' = rate
  /\ speakWord(currentWord.english, voiceGender, specificVoiceURI, rate)
  /\ lastOp' = "setSpeechRate"
  /\ UNCHANGED <<appVars, quizVars, envVars>>
  /\ UNCHANGED <<loadVars, ssSupported, voices, voiceGender, specificVoiceURI>>
  /\ promptEffect

\* What the learner types in the runs that follow the speech.
SpelledInputs == { <<"c", "a", "t">> }

InitSpeech ==
  /\ quizIdle
  /\ srSupported = FALSE
  /\ ssSupported \in BOOLEAN
  /\ voices = <<Zira, David>>
  /\ voiceGender = "female"
  /\ specificVoiceURI = ""
  /\ speechRate = 8
  /\ utterances = <<>>
  /\ promptTimer = {}

NextSpeech ==
  \/ \E checked \in SUBSET Ids, gender \in {"male", "female"} :
       Tick /\ handleStartWithVoice(checked, gender, David.voiceURI)
  \/ \E text \in SpelledInputs : Tick /\ onChange(text) /\ rendered
  \/ Tick /\ submitForm /\ rendered
  \/ \E t \in timers : Tick /\ dwellTimeout(t) /\ rendered
  \/ Tick /\ onExit /\ rendered
  \/ Tick /\ onRestart /\ rendered
  \/ Tick /\ promptTimeout
  \/ Tick /\ handleSpeakAgain
  \/ \E rate \in {5, 8} : Tick /\ setSpeechRate(rate)
  \/ Tick /\ utteranceEnd

SpecSpeech == InitSpeech /\ [][NextSpeech]_vars

(* --------------- the quiz on a host without speech output -------------- *)
\* No speechSynthesis in window, no recognition engine either.
InitMute ==
  /\ quizIdle
  /\ srSupported = FALSE
  /\ ssSupported = FALSE
  /\ voices = <<>>
  /\ voiceGender = "female"
  /\ specificVoiceURI = ""
  /\ speechRate = 8
  /\ utterances = <<>>
  /\ promptTimer = {}

\* The learner types an answer.
typeAnswer == \E text \in TypedInputs : onChange(text) /\ rendered /\ UNCHANGED steps

\* The learner submits the form.
submitAnswer == submitForm /\ rendered /\ UNCHANGED steps

\* A dwell timeout elapses.
dwellElapses == \E t \in timers : dwellTimeout(t) /\ rendered /\ UNCHANGED steps

\* A prompt timeout elapses.
promptElapses == promptTimeout /\ UNCHANGED steps

\* The learner never exits, and the events are not counted: the runs are as
\* long as the learner goes on.
NextMute ==
  \/ \E checked \in SUBSET Ids, gender \in {"male", "female"} :
       handleStartWithVoice(checked, gender, "") /\ UNCHANGED steps
  \/ typeAnswer
  \/ submitAnswer
  \/ dwellElapses
  \/ promptElapses
  \/ handleSpeakAgain /\ UNCHANGED steps
  \/ \E rate \in {5, 8, 10} : setSpeechRate(rate) /\ UNCHANGED steps
  \/ onRestart /\ rendered /\ UNCHANGED steps

\* Timeouts that are due do elapse.
SpecMute ==
  InitMute /\ [][NextMute]_vars /\ WF_vars(dwellElapses) /\ WF_vars(promptElapses)

(* ------------------------ speakWord called again ----------------------- *)
\* The URIs the calls pass: none, that of David, one that no voice has.
CallURIs == {"", David.voiceURI, "urn:gone"}

\* The catalogs of the calls: those that leave room for one more voice.
CallCatalogs == {c \in Catalogs : Len(c) < MaxVoices}

\* No call was made yet.
InitCalls ==
  /\ quizIdle
  /\ ssSupported \in BOOLEAN
  /\ voices \in CallCatalogs
  /\ voiceGender = "female"
  /\ specificVoiceURI = ""
  /\ speechRate = 8
  /\ utterances = <<>>
  /\ promptTimer = {}

\* One call of speakWord; voiceGender and specificVoiceURI keep the arguments
\* of the latest call, steps counts the calls.
callSpeakWord(gender, uri) ==
  /\ steps < MaxCalls
  /\ steps' = steps + 1
  /\ speakWord(Hello, gender, uri, 8)
  /\ voiceGender' = gender
  /\ specificVoiceURI' = uri
  /\ lastOp' = "speakWord"
  /\ UNCHANGED <<appVars, quizVars, envVars>>
  /\ UNCHANGED <<loadVars, ssSupported, voices, speechRate, promptTimer>>

NextCalls ==
  \E gender \in {"male", "female"}, uri \in CallURIs : callSpeakWord(gender, uri)

SpecCalls == InitCalls /\ [][NextCalls]_vars

(* -------------------------- loading the voices ------------------------- *)
\* The catalogs the host may have, before and after it loaded its voices.
LoadCatalogs == {<<>>, <<Zira>>, <<Zira, David>>}

\* The promise of a call: pending, not yet handed to its then callback, and
\* made by the SelectionScreen that is mounted.
newPromise ==
  [state |-> "pending", value |-> <<>>, delivered |-> FALSE, mounted |-> TRUE]

\* resolve(value) of the Promise executor: it settles a pending promise and
\* does nothing to a settled one.
resolve(p, value) ==
  IF p.state = "pending"
  THEN [p EXCEPT !.state = "fulfilled", !.value = value]
  ELSE p

\* getAvailableVoices: [] without speechSynthesis, the catalog if it has a
\* voice, otherwise the promise is left to the onvoiceschanged handler, which
\* replaces the handler of an earlier call.
getAvailableVoices ==
  /\ promises' =
       Append(promises,
              IF ~ssSupported THEN resolve(newPromise, <<>>)
              ELSE IF Len(voices) > 0 THEN resolve(newPromise, voices)
              ELSE newPromise)
  /\ onvoiceschanged' =
       IF ssSupported /\ Len(voices) = 0 THEN Len(promises) + 1
       ELSE onvoiceschanged

\* The SelectionScreen that is mounted has run its effect.
loaded == \E p \in 1..Len(promises) : promises[p].mounted

\* The mount effect of the SelectionScreen:
\* getAvailableVoices().then(voices => setAllVoices(voices)).
loadVoices ==
  /\ screen = "SELECTION" /\ ~loaded
  /\ getAvailableVoices
  /\ lastOp' = "loadVoices"
  /\ UNCHANGED <<appVars, quizVars, envVars, steps, speechVars, allVoices>>

\* The host fires voiceschanged: it has loaded another catalog with voices in
\* it; the handler, if one is set, resolves its promise with getVoices().
voiceschanged ==
  /\ ssSupported
  /\ \E catalog \in LoadCatalogs \ {voices, <<>>} :
       /\ voices' = catalog
       /\ promises' =
            IF onvoiceschanged # 0
            THEN [promises EXCEPT ![onvoiceschanged] = resolve(@, catalog)]
            ELSE promises
  /\ lastOp' = "voiceschanged"
  /\ UNCHANGED <<appVars, quizVars, envVars, steps, onvoiceschanged, allVoices>>
  /\ UNCHANGED <<ssSupported, voiceGender, specificVoiceURI, speechRate,
                 utterances, promptTimer>>

\* The then callback of a settled promise: setAllVoices(voices), which does
\* nothing once the SelectionScreen of the call is unmounted.
setAllVoices(p) ==
  /\ promises[p].state = "fulfilled" /\ ~promises[p].delivered
  /\ promises' = [promises EXCEPT ![p].delivered = TRUE]
  /\ allVoices' = IF promises[p].mounted THEN promises[p].value ELSE allVoices
  /\ lastOp' = "setAllVoices"
  /\ UNCHANGED <<appVars, quizVars, envVars, steps, speechVars, onvoiceschanged>>

\* The then callbacks that are due.
thenCallback == \E p \in 1..Len(promises) : setAllVoices(p)

\* handleStart after the effect ran; starting the quiz unmounts the
\* SelectionScreen and drops its state.
leaveSelection(checked) ==
  /\ loaded /\ Len(promises) < MaxLoads
  /\ handleStart(checked)
  /\ IF screen' = "QUIZ"
     THEN /\ promises' = [p \in 1..Len(promises) |->
                            [promises[p] EXCEPT !.mounted = FALSE]]
          /\ allVoices' = <<>>
     ELSE UNCHANGED <<promises, allVoices>>
  /\ UNCHANGED <<steps, speechVars, onvoiceschanged>>

\* The exit button of the quiz: a new SelectionScreen is mounted.
backToSelection == onExit /\ UNCHANGED <<steps, speechVars, loadVars>>

\* A host without speech synthesis has no catalog.
InitLoad ==
  /\ quizIdle
  /\ ssSupported \in BOOLEAN
  /\ voices \in IF ssSupported THEN LoadCatalogs ELSE {<<>>}
  /\ voiceGender = "female"
  /\ specificVoiceURI = ""
  /\ speechRate = 8
  /\ utterances = <<>>
  /\ promptTimer = {}

NextLoad ==
  \/ loadVoices
  \/ voiceschanged
  \/ thenCallback
  \/ \E checked \in SUBSET Ids : leaveSelection(checked)
  \/ backToSelection

\* The then callbacks of settled promises do run; the host need not ever fire
\* voiceschanged.
SpecLoad == InitLoad /\ [][NextLoad]_vars /\ WF_vars(thenCallback)

(* --------------------- the summary of any result list ------------------ *)
\* A result list of t records, the first c of them correct.
tally(c, t) ==
  [i \in 1..t |->
     [word |-> Cat,
      userAnswer |-> IF i <= c THEN <<"c", "a", "t">> ELSE <<"c", "t", "a">>,
      isCorrect |-> i <= c]]

\* The result lists: every tally up to MaxTotal records, the longest lists
\* with one record wrong at most, and the short lists with the correct answers
\* at any places.
ResultLists ==
  UNION {{tally(c, t) : c \in 0..t} : t \in 1..MaxTotal}
  \cup UNION {{tally(c, t) : c \in (t - 1)..t} : t \in (MaxLong - 1)..MaxLong}
  \cup UNION {{[i \in 1..n |-> [word |-> Cat,
                                userAnswer |-> <<>>,
                                isCorrect |-> right[i]]]
                : right \in [1..n -> BOOLEAN]} : n \in 1..MaxWords}

\* The ResultScreen was just mounted with one of the lists.
InitResult ==
  /\ loadIdle /\ speechIdle
  /\ screen = "RESULT"
  /\ quizResults \in ResultLists
  /\ selectedWords = [i \in 1..Len(quizResults) |-> quizResults[i].word]
  /\ shuffledWords = <<>>
  /\ currentIndex = 0
  /\ userInput = <<>>
  /\ results = <<>>
  /\ feedback = "idle"
  /\ isListening = FALSE
  /\ recognitionRef = 0
  /\ timers = {}
  /\ sessions = [r \in Slots |-> NoSession]
  /\ srSupported = FALSE
  /\ lastOp = "init"
  /\ steps = 0

\* The effect of the ResultScreen after its mount: the win sound for a
\* perfect score, the lose sound for a bad one.
playOutcome ==
  /\ screen = "RESULT" /\ lastOp = "init"
  /\ lastOp' = IF isPerfect THEN "playSound.win"
               ELSE IF isBad THEN "playSound.lose"
               ELSE "playSound:none"
  /\ UNCHANGED <<appVars, quizVars, envVars, steps>>

NextResult ==
  \/ playOutcome /\ Silent
  \/ onRestart /\ Silent /\ UNCHANGED steps

SpecResult == InitResult /\ [][NextResult]_vars

(* ---------------- the microphone on the first item only --------------- *)
\* A host with recognition and speech synthesis; no voice is loaded.
InitOrder ==
  /\ quizIdle
  /\ srSupported = TRUE
  /\ speechIdle

\* The learner starts a quiz on both words and uses the microphone button on
\* the first item only: a session the engine holds was started on that item.
NextOrder ==
  \/ Tick /\ handleStartWithVoice(Ids, "female", "")
  \/ \E text \in SpelledInputs : Tick /\ onChange(text) /\ rendered
  \/ Tick /\ mounted /\ currentIndex = 0 /\ toggleListening /\ rendered
  \/ Tick /\ submitForm /\ rendered
  \/ \E t \in timers : Tick /\ dwellTimeout(t) /\ rendered
  \/ Tick /\ promptTimeout
  \/ \E r \in Slots : Tick /\ onstart(r) /\ rendered
  \/ \E r \in Slots : Tick /\ onresult(r) /\ rendered
  \/ \E r \in Slots : Tick /\ onerror(r) /\ rendered
  \/ \E r \in Slots : Tick /\ onend(r) /\ rendered

SpecOrder == InitOrder /\ [][NextOrder]_vars

(* ------------------------------ claims --------------------------------- *)
\* A step that handled an event (not a stuttering step).
Stepped == steps' = steps + 1

\* C1: before Finished, the number of recorded results equals currentIndex
\* while feedback is idle, and currentIndex + 1 while feedback is correct or
\* wrong.
C1_ResultsTrackPosition ==
  mounted =>
    /\ feedback = "idle" => Len(results) = currentIndex
    /\ feedback # "idle" => Len(results) = currentIndex + 1

\* The second item has been submitted and its feedback is showing.
C1_Witness ==
  mounted /\ feedback # "idle" /\ currentIndex = 1 /\ Len(results) = 2

\* C2: a submit while feedback is correct or wrong changes neither results,
\* currentIndex, feedback nor userInput and schedules no timeout; no item ever
\* has more than one record.
C2_SubmitIgnoredDuringFeedback ==
  /\ [][ (Stepped /\ mounted /\ feedback # "idle"
            /\ lastOp' \in {"handleSubmit", "handleSubmit:ignored"})
         => UNCHANGED <<results, currentIndex, feedback, userInput, timers>> ]_vars
  /\ [](mounted => Len(results) <= currentIndex + 1)

\* A submit was ignored while the feedback of the second item was showing.
C2_Witness ==
  lastOp = "handleSubmit:ignored" /\ feedback # "idle" /\ Len(results) = 2

\* C3 (as claimed): onFinish is never called for a session that was exited.
C3_NoFinishAfterExit ==
  lastOp # "dwell:onFinish:exited"

\* C4 (as claimed): a transcript event of a session that was stopped does not
\* change userInput.
C4_LateTranscriptIgnored ==
  [][ \A r \in Slots :
        (Stepped /\ lastOp' = "onresult" /\ sessions[r].status = "stopping"
           /\ sessions'[r].frags # sessions[r].frags)
        => userInput' = userInput ]_vars

\* C5 (as claimed): while feedback is correct or wrong, userInput does not
\* change.
C5_InputFrozenDuringFeedback ==
  [][ (mounted /\ feedback # "idle" /\ mounted' /\ feedback' # "idle")
      => userInput' = userInput ]_vars

\* Sessions that were started and neither stopped nor ended.
Unstopped ==
  {r \in Slots : sessions[r].live /\ sessions[r].status \in {"starting", "running"}}

\* C6 (as claimed): at most one capture session is started and not stopped.
C6_AtMostOneCapture ==
  Cardinality(Unstopped) <= 1

\* C7: the mounted session calls onFinish exactly when the dwell of its last
\* item elapses, which unmounts it, so at most once; the dwell of an earlier
\* item advances currentIndex by one and calls nothing; a session that lost
\* the screen to another one's onFinish calls onFinish only from the timeout
\* of its last item; currentIndex never passes the last index.
C7_FinishAtLastDwell ==
  /\ [](mounted => currentIndex <= Len(shuffledWords) - 1)
  /\ [](Cardinality({t \in timers : t.owner = "mounted"}) <= 1)
  /\ [][ /\ (Stepped /\ lastOp' = "dwell:onFinish") =>
              /\ mounted /\ feedback # "idle"
              /\ currentIndex = Len(shuffledWords) - 1
              /\ ~mounted' /\ screen' = "RESULT"
              /\ ~\E t \in timers' : t.owner = "mounted"
         /\ (Stepped /\ lastOp' = "dwell:next") =>
              /\ mounted /\ feedback # "idle"
              /\ currentIndex < Len(shuffledWords) - 1
              /\ currentIndex' = currentIndex + 1
              /\ mounted' /\ quizResults' = quizResults
         /\ (Stepped /\ lastOp' = "dwell:stale") =>
              /\ \E t \in timers : t.owner # "mounted" /\ t \notin timers'
              /\ screen' = screen /\ quizResults' = quizResults
         /\ (Stepped /\ lastOp' = "dwell:onFinish:replaced") =>
              \E t \in timers :
                /\ t.owner = "replaced" /\ t \notin timers'
                /\ t.currentIndex = Len(t.shuffledWords) - 1 ]_vars

\* A session of two items has just called onFinish.
C7_Witness ==
  lastOp = "dwell:onFinish" /\ screen = "RESULT" /\ Len(quizResults) = 2

\* The results a pending last-item timeout will hand to onFinish.
Handed(t) == Append(t.results, t.newResult)

\* One record per item of ws, in the order of ws.
OnePerItem(res, ws) ==
  /\ Len(res) = Len(ws)
  /\ \A i \in 1..Len(res) : res[i].word = ws[i]

\* C8: the results handed to onFinish hold one record per item, the i-th for
\* the i-th shuffled word, and are the session's results; results only grows
\* by appending.
C8_OneRecordPerItemInOrder ==
  /\ [](\A t \in timers :
          t.currentIndex = Len(t.shuffledWords) - 1 => OnePerItem(Handed(t), t.shuffledWords))
  /\ [][ (Stepped /\ lastOp' = "dwell:onFinish") =>
           /\ OnePerItem(quizResults', shuffledWords)
           /\ quizResults' = results ]_vars
  /\ [][ (mounted /\ mounted') =>
           /\ Len(results') >= Len(results)
           /\ SubSeq(results', 1, Len(results)) = results ]_vars

\* onFinish handed over the records of Dog and Cat, in this order.
C8_Witness ==
  /\ lastOp = "dwell:onFinish"
  /\ Len(quizResults) = 2
  /\ quizResults[1].word = Dog /\ quizResults[2].word = Cat

\* Occurrences of the word with this id in ws.
Count(ws, id) == Cardinality({i \in 1..Len(ws) : ws[i].id = id})

\* C9: the shuffled sequence has the length of the input list and the same
\* multiset of ids.
C9_ShuffleIsPermutation ==
  mounted =>
    /\ Len(shuffledWords) = Len(selectedWords)
    /\ \A w \in WordPool : Count(shuffledWords, w.id) = Count(selectedWords, w.id)

\* A list of three words with a repeated word was shuffled into another order.
C9_Witness ==
  /\ mounted
  /\ Len(selectedWords) = 3
  /\ selectedWords[1] = selectedWords[3]
  /\ selectedWords[1] # selectedWords[2]
  /\ shuffledWords # selectedWords

\* Surrounding blanks removed: what lies between the first and the last
\* character that is not a blank.
Stripped(s) ==
  LET inked == {i \in 1..Len(s) : s[i] # " "}
  IN  IF inked = {} THEN <<>>
      ELSE SubSeq(s, CHOOSE i \in inked : \A j \in inked : i <= j,
                     CHOOSE i \in inked : \A j \in inked : i >= j)

Folded == ("A" :> "a") @@ ("C" :> "c") @@ ("D" :> "d") @@ ("E" :> "e")
          @@ ("G" :> "g") @@ ("L" :> "l") @@ ("O" :> "o") @@ ("P" :> "p")
          @@ ("T" :> "t")

\* Stripped and in lower case.
Normalized(s) ==
  [i \in 1..Len(Stripped(s)) |->
     IF Stripped(s)[i] \in DOMAIN Folded THEN Folded[Stripped(s)[i]] ELSE Stripped(s)[i]]

\* C10: a record is correct exactly when the answer, stripped and lowercased,
\* equals the word's text, stripped and lowercased; a transposition is not
\* accepted; feedback is correct exactly when the record just made is.
C10_ExactNormalizedMatch ==
  mounted =>
    /\ \A i \in 1..Len(results) :
         /\ results[i].isCorrect <=>
              Normalized(results[i].userAnswer) = Normalized(results[i].word.english)
         /\ results[i].userAnswer = <<"c", "t", "a">> => ~results[i].isCorrect
    /\ feedback # "idle" =>
         /\ Len(results) > 0
         /\ feedback = "correct" <=> results[Len(results)].isCorrect

\* " Cat " was accepted for cat, and the transposition "cta" was rejected.
C10_Witness ==
  /\ mounted
  /\ \E i \in 1..Len(results) :
       /\ results[i].userAnswer = <<" ", "C", "a", "t", " ">>
       /\ results[i].word = Cat /\ results[i].isCorrect
  /\ feedback = "wrong"
  /\ results[Len(results)].userAnswer = <<"c", "t", "a">>

\* Some character of s is not a blank.
HasInk(s) == \E i \in 1..Len(s) : s[i] # " "

\* A live capture session that was started and not stopped.
Capturing == \E r \in Slots : sessions[r].live /\ sessions[r].status = "running"

\* C11: a submission is accepted (a record is appended and feedback is set)
\* only when feedback is idle and the input holds something besides blanks or
\* a listening session is active; a submit with a blank input and no listening
\* session changes nothing.
C11_SubmitNeedsInputOrListening ==
  /\ [][ (Stepped /\ mounted /\ mounted'
            /\ (Len(results') > Len(results) \/ lastOp' = "handleSubmit"))
         => /\ feedback = "idle" /\ feedback' # "idle"
            /\ Len(results') = Len(results) + 1
            /\ HasInk(userInput) \/ (isListening /\ Capturing) ]_vars
  /\ [][ (Stepped /\ ~HasInk(userInput) /\ ~isListening
            /\ lastOp' \in {"handleSubmit", "handleSubmit:ignored", "submit:disabled"})
         => /\ lastOp' = "submit:disabled"
            /\ UNCHANGED <<appVars, quizVars, envVars>> ]_vars

\* An empty answer was accepted while listening, and on the next item a
\* submit with an empty input and no listening session was refused.
C11_Witness ==
  /\ lastOp = "submit:disabled"
  /\ feedback = "idle" /\ currentIndex = 1
  /\ results[1].userAnswer = <<>>
  /\ userInput = <<>> /\ ~isListening

\* The session of cat and dog ended with "cat" submitted first and "dog" second.
CatThenDog ==
  /\ screen = "RESULT" /\ lastOp = "dwell:onFinish"
  /\ selectedWords = <<Cat, Dog>>
  /\ Len(quizResults) = 2
  /\ quizResults[1].userAnswer = <<"c", "a", "t">>
  /\ quizResults[2].userAnswer = <<"d", "o", "g">>

\* Both records correct, and the summary 2 of 2, 100, Perfect.
AllRight ==
  /\ quizResults[1].isCorrect /\ quizResults[2].isCorrect
  /\ correctCount = 2 /\ total = 2 /\ percentage = 100
  /\ outcomeClass = "Perfect"

\* C12 (as claimed): a session started with cat and dog in which "cat" is
\* submitted first and "dog" second ends with both records correct and the
\* summary 2 of 2, 100, Perfect.
C12_CatDogScenario == CatThenDog => AllRight

\* C12 (amended): the same, for the sessions whose shuffled order is cat, dog.
C12_CatDogScenarioInOrder ==
  (CatThenDog /\ quizResults[1].word = Cat /\ quizResults[2].word = Dog) => AllRight

\* The scenario was played on the shuffled order cat, dog.
C12_Witness ==
  CatThenDog /\ quizResults[1].word = Cat /\ quizResults[2].word = Dog

\* The letters of one fragment, in lower case.
CleanFragment(f) ==
  LET letters == SelectSeq(f, LAMBDA c : c \in DOMAIN Folded \/ c \in {Folded[u] : u \in DOMAIN Folded})
  IN  [i \in 1..Len(letters) |->
         IF letters[i] \in DOMAIN Folded THEN Folded[letters[i]] ELSE letters[i]]

\* The cleaned fragments of a session, joined in the order they came.
RECURSIVE Running(_)
Running(fs) ==
  IF fs = <<>> THEN <<>>
  ELSE Running(SubSeq(fs, 1, Len(fs) - 1)) \o CleanFragment(fs[Len(fs)])

\* C13: every transcript event sets userInput to the join, in order, of all
\* the fragments of its session so far, letters only and in lower case; the
\* fragments "A ", "P P", "LE!" give "apple".
C13_RunningCleanTranscript ==
  [][ \A r \in Slots :
           (Stepped /\ lastOp' = "onresult" /\ sessions'[r].frags # sessions[r].frags)
           => /\ Len(sessions'[r].frags) = Len(sessions[r].frags) + 1
              /\ userInput' = Running(sessions'[r].frags)
              /\ sessions'[r].frags =
                   << <<"A", " ">>, <<"P", " ", "P">>, <<"L", "E", "!">> >>
                 => userInput' = <<"a", "p", "p", "l", "e">> ]_vars

\* The third transcript event of a session that heard "A ", "P P", "LE!".
C13_Witness ==
  /\ lastOp = "onresult"
  /\ \E r \in Slots :
       sessions[r].frags = << <<"A", " ">>, <<"P", " ", "P">>, <<"L", "E", "!">> >>
  /\ userInput = <<"a", "p", "p", "l", "e">>

\* C14: a recognition error during a listening session sets isListening to
\* false and leaves userInput, currentIndex, feedback and results as they
\* were; the quiz is neither finished nor exited by it.
C14_ErrorRevertsToTyping ==
  [][ \A r \in Slots :
        (Stepped /\ lastOp' = "onerror" /\ sessions[r].live
           /\ sessions'[r] # sessions[r])
        => /\ ~isListening'
           /\ UNCHANGED <<userInput, currentIndex, feedback, results, shuffledWords>>
           /\ UNCHANGED <<appVars, timers>>
           /\ mounted' ]_vars

\* An error ended a listening session that had transcribed "do".
C14_Witness ==
  /\ lastOp = "onerror"
  /\ mounted /\ ~isListening
  /\ userInput = <<"d", "o">>
  /\ \E r \in Slots : sessions[r].live /\ sessions[r].status = "closing"

\* C15 (as claimed): once exit has completed, no capture session the quiz
\* started is left neither stopped nor ended.
C15_ExitStopsCapture ==
  lastOp = "onExit" =>
    \A r \in Slots : sessions[r].status \notin {"starting", "running"}

\* The microphone button was pressed.
Toggled == lastOp' \in {"toggleListening:alert", "toggleListening:start",
                        "toggleListening:stop"}

\* C16: on a host without speech recognition, pressing the microphone button
\* alerts the learner at once, creates no session and never sets isListening;
\* userInput, feedback, currentIndex and results are unchanged.
C16_UnsupportedAlertsOnly ==
  /\ [](~srSupported =>
          /\ ~isListening /\ recognitionRef = 0
          /\ \A r \in Slots : sessions[r] = NoSession)
  /\ [][ (Stepped /\ Toggled /\ ~srSupported)
         => /\ lastOp' = "toggleListening:alert"
            /\ UNCHANGED <<appVars, quizVars, timers, sessions>> ]_vars

\* The alert was shown over a typed input, while the second item was asked.
C16_Witness ==
  /\ lastOp = "toggleListening:alert"
  /\ ~srSupported /\ mounted
  /\ userInput = <<"c", "a", "t">> /\ currentIndex = 1

\* The handlers that call stopListening() on the mounted QuizScreen.
StopCalls == {"toggleListening:stop", "handleSubmit", "dwell:next"}

\* C17: every call of stopListening leaves no session referenced and
\* isListening false, and does not touch userInput; a call made when no
\* session is referenced, or when the referenced one has already ended, failed
\* or been stopped, changes no session; after a call, one more call would
\* change nothing.
C17_StopIsIdempotent ==
  /\ [][ (Stepped /\ lastOp' \in StopCalls) =>
           /\ recognitionRef' = 0 /\ ~isListening'
           /\ lastOp' # "dwell:next" => userInput' = userInput
           /\ recognitionRef # 0 =>
                sessions'[recognitionRef].status \notin {"starting", "running"}
           /\ (recognitionRef = 0 \/
                 sessions[recognitionRef].status \in {"ended", "stopping", "closing"})
              => \A r \in Slots :
                   sessions'[r] # sessions[r] =>
                     sessions[r].status = "ended" /\ sessions'[r] = NoSession ]_vars
  /\ []((mounted /\ lastOp \in StopCalls) =>
          /\ recognitionRef = 0 /\ ~isListening
          /\ sessionsAfterStop = sessions)

\* The session that dictated the first answer was stopped, and the move to
\* the next item called stopListening again with no session referenced.
C17_Witness ==
  /\ lastOp = "dwell:next" /\ mounted
  /\ results[1].userAnswer = <<"d", "o">>
  /\ recognitionRef = 0 /\ ~isListening
  /\ \E r \in Slots :
       /\ sessions[r].live /\ sessions[r].status = "stopping"
       /\ \A q \in Slots \ {r} : sessions[q] = NoSession

\* The voices of the catalog that have the URI the caller passed.
Named == {v \in voicesOf(voices) : v.voiceURI = specificVoiceURI}

\* C20: when the URI passed equals that of a voice of the catalog, the
\* utterance gets that voice, whatever the gender and the other voices are.
C20_ExplicitURIWins ==
  (lastOp = "testVoice" /\ ssSupported /\ specificVoiceURI # "" /\ Named # {})
  => /\ Len(utterances) = 1
     /\ utterances[1].voice \in Named

\* David was asked for by URI with the female gender, in a catalog where Zira,
\* whom the female keywords match, comes first.
C20_Witness ==
  /\ lastOp = "testVoice" /\ ssSupported
  /\ voiceGender = "female" /\ specificVoiceURI = David.voiceURI
  /\ Len(voices) = 3 /\ voices[1] = Zira /\ voices[3] = David
  /\ utterances = <<newUtterance(Hello, "female", David.voiceURI, 8)>>
  /\ utterances[1].voice = David

\* The handlers of the QuizScreen that call speakWord.
SpeakCalls == {"prompt", "handleSpeakAgain", "setSpeechRate"}

\* C19: a speak call leaves its own utterance as the only one queued or
\* playing, so at most one utterance is ever queued or playing.
C19_OneUtteranceAtMost ==
  /\ [](Len(utterances) <= 1)
  /\ [][ (Stepped /\ lastOp' \in SpeakCalls /\ ssSupported)
         => /\ Len(utterances') = 1
            /\ utterances'[1].text = currentWord.english
            /\ utterances'[1].rate = speechRate' ]_vars

\* The third event of a run: the loudspeaker button, pressed right after the
\* prompt of the first item was spoken and before that utterance ended.
C19_Witness ==
  /\ steps = 3 /\ lastOp = "handleSpeakAgain"
  /\ ssSupported /\ promptTimer = {}
  /\ Len(utterances) = 1

\* The learner goes on typing and submitting answers.
LearnerAnswers == WF_vars(typeAnswer) /\ WF_vars(submitAnswer)

\* C18: without speech synthesis every speak call leaves the queue empty and
\* the quiz as it is, and a quiz whose learner types and submits an answer
\* for every item, and does not exit, reaches the result screen.
C18_MuteHostStillFinishes ==
  /\ [](~ssSupported => utterances = <<>>)
  /\ [][ (lastOp' \in SpeakCalls /\ ~ssSupported)
         => UNCHANGED <<appVars, quizVars, envVars, utterances>> ]_vars
  /\ LearnerAnswers => (mounted ~> screen = "RESULT")

\* The prompt of the second item was spoken to no effect.
C18_Witness ==
  /\ ~ssSupported /\ lastOp = "prompt"
  /\ mounted /\ currentIndex = 1 /\ Len(results) = 1
  /\ utterances = <<>>

\* The primary subtag of the language tag is en.
EnglishTag(lang) ==
  /\ Len(lang) >= 2
  /\ toLowerChar(lang[1]) = "e" /\ toLowerChar(lang[2]) = "n"
  /\ Len(lang) > 2 => lang[3] \in {"-", "_"}

\* The name, in lower case, contains the keyword.
NameHas(name, keyword) ==
  \E i \in 1..Len(name) :
    /\ i + Len(keyword) - 1 <= Len(name)
    /\ \A j \in 1..Len(keyword) : toLowerChar(name[i + j - 1]) = keyword[j]

\* The keywords of the gender the caller passed.
GenderKeywords == IF voiceGender = "male" THEN maleKeywords ELSE femaleKeywords

\* The positions of the catalog whose voice is English and named by a keyword
\* of the gender; is en-US; is English.
KeywordPlaces ==
  {i \in 1..Len(voices) :
     /\ EnglishTag(voices[i].lang)
     /\ \E k \in GenderKeywords : NameHas(voices[i].name, k)}
USPlaces == {i \in 1..Len(voices) : voices[i].lang = <<"e", "n", "-", "U", "S">>}
EnglishPlaces == {i \in 1..Len(voices) : EnglishTag(voices[i].lang)}

\* The voice at the least of the places.
FirstAt(places) == voices[CHOOSE i \in places : \A j \in places : i <= j]

\* The voice the strict priority gives.
ByPriority ==
  IF KeywordPlaces # {} THEN FirstAt(KeywordPlaces)
  ELSE IF USPlaces # {} THEN FirstAt(USPlaces)
  ELSE IF EnglishPlaces # {} THEN FirstAt(EnglishPlaces)
  ELSE NoVoice

\* A speak call was made on a host with speech synthesis, with no URI or with
\* one that no voice of the catalog has.
SpokeUnnamed == lastOp = "testVoice" /\ ssSupported /\ Named = {}

\* C21 (as claimed): when no URI matches, the voice is the first English voice
\* named by a keyword of the gender; failing that the first en-US voice;
\* failing that the first English voice; failing that none.
C21_StrictPriority ==
  SpokeUnnamed => utterances[1].voice = ByPriority

\* C22 (as claimed): when no URI matches, a voice that selection returns has
\* the primary subtag en, and selection returns none exactly when the catalog
\* has no voice with the primary subtag en.
C22_OnlyEnglishVoices ==
  SpokeUnnamed =>
    /\ utterances[1].voice # NoVoice => EnglishTag(utterances[1].voice.lang)
    /\ utterances[1].voice = NoVoice <=> EnglishPlaces = {}

\* A speak call was made on a host with speech synthesis.
Spoke == lastOp = "testVoice" /\ ssSupported

NamedPlaces == {i \in 1..Len(voices) : voices[i].voiceURI = specificVoiceURI}
TaggedPlaces ==
  {i \in 1..Len(voices) :
     \E j \in 1..(Len(voices[i].lang) - 1) :
       voices[i].lang[j] = "e" /\ voices[i].lang[j + 1] = "n"}
TaggedKeywordPlaces ==
  {i \in TaggedPlaces : \E k \in GenderKeywords : NameHas(voices[i].name, k)}

\* Voice and pitch as a function of the catalog, the gender and the URI alone.
SettledVoice ==
  IF specificVoiceURI # "" /\ NamedPlaces # {} THEN FirstAt(NamedPlaces)
  ELSE IF TaggedKeywordPlaces # {} THEN FirstAt(TaggedKeywordPlaces)
  ELSE IF USPlaces # {} THEN FirstAt(USPlaces)
  ELSE IF TaggedPlaces # {} THEN FirstAt(TaggedPlaces)
  ELSE NoVoice
SettledPitch ==
  IF /\ voiceGender = "male"
     /\ ~(specificVoiceURI # "" /\ NamedPlaces # {})
     /\ TaggedKeywordPlaces = {}
  THEN 7 ELSE 10

\* C24: the voice and the pitch of a call are a function of the catalog, the
\* gender and the URI of that call, whatever calls were made before it: two
\* calls with the same three get the same voice and the same pitch.
C24_SameInputsSameVoice ==
  (lastOp = "speakWord" /\ ssSupported) =>
    /\ Len(utterances) = 1
    /\ utterances[1].voice = SettledVoice
    /\ utterances[1].pitch = SettledPitch

\* The second call of a run asked for the male gender without a URI in a
\* catalog of Zira and David; the first call had the same or other arguments.
C24_Witness ==
  /\ steps = 2 /\ lastOp = "speakWord" /\ ssSupported
  /\ voiceGender = "male" /\ specificVoiceURI = ""
  /\ voices = <<Zira, David>>
  /\ utterances[1].voice = David /\ utterances[1].pitch = 10

\* The calls of getAvailableVoices a run may make.
Calls == 1..MaxLoads

\* The call was made; its promise is settled.
Called(p) == p <= Len(promises)
Settled(p) == Called(p) /\ promises[p].state = "fulfilled"

\* A call settles as stated: at once with [] without speech synthesis, at
\* once with the catalog if it has a voice, otherwise at voiceschanged with the
\* catalog of that moment; a settled promise keeps its value.
SettlesAsStated ==
  [][\A p \in Calls :
       /\ (~Called(p) /\ Called(p)' /\ ~ssSupported)
            => (Settled(p)' /\ promises'[p].value = <<>>)
       /\ (~Called(p) /\ Called(p)' /\ ssSupported /\ voices # <<>>)
            => (Settled(p)' /\ promises'[p].value = voices)
       /\ (~Called(p) /\ Called(p)' /\ ssSupported /\ voices = <<>>)
            => ~Settled(p)'
       /\ (Called(p) /\ ~Settled(p) /\ Settled(p)')
            => (lastOp' = "voiceschanged" /\ promises'[p].value = voices')
       /\ Settled(p)
            => (Settled(p)' /\ promises'[p].value = promises[p].value)]_vars

\* C25 (as claimed): every call of getAvailableVoices resolves in the end,
\* and once: at once with [] without speech synthesis, at once with the
\* catalog if it has a voice, else with the catalog at voiceschanged, and also
\* if the host never fires voiceschanged.
C25_EveryCallResolves ==
  /\ \A p \in Calls : Called(p) ~> Settled(p)
  /\ SettlesAsStated

\* The records of the list that are correct.
Right == {i \in 1..Len(quizResults) : quizResults[i].isCorrect}

\* 100 * c / t rounded to the nearest integer, a half upwards.
Rounded(c, t) == (200 * c + t) \div (2 * t)

\* C26 (as claimed): for a list with total > 0 the summary has the number of
\* correct records, the number of records, percentage = round(100 *
\* correctCount / total), and one class: Perfect at 100, Poor below 80,
\* Normal otherwise.
C26_SummaryOfResults ==
  (screen = "RESULT" /\ Len(quizResults) > 0) =>
    /\ correctCount = Cardinality(Right)
    /\ total = Len(quizResults)
    /\ percentage = Rounded(Cardinality(Right), Len(quizResults))
    /\ outcomeClass = IF Rounded(Cardinality(Right), Len(quizResults)) = 100
                      THEN "Perfect"
                      ELSE IF Rounded(Cardinality(Right), Len(quizResults)) < 80
                      THEN "Poor"
                      ELSE "Normal"
    /\ quizResults = tally(1, 2) => (percentage = 50 /\ outcomeClass = "Poor")

\* C27: a start with nothing ticked is turned down by the handler itself: the
\* application stays on the selection screen and no quiz state is made or
\* changed, so no quiz ever runs on an empty list.
C27_EmptyStartRejected ==
  /\ [](mounted => (selectedWords # <<>> /\ shuffledWords # <<>>))
  /\ [][(Stepped /\ lastOp' = "handleStart:nothing")
          => /\ screen = "SELECTION" /\ screen' = "SELECTION"
             /\ UNCHANGED <<appVars, quizVars, envVars>>]_vars

\* The start button was pressed with nothing ticked after a quiz had been
\* exited with a dwell timeout still pending.
C27_Witness ==
  /\ lastOp = "handleStart:nothing" /\ screen = "SELECTION"
  /\ selectedWords = <<>> /\ shuffledWords = <<>>
  /\ timers # {}

\* C28 (as claimed): when the prompt of item N+1 is spoken, every capture
\* session started while item N was current has been stopped.  Here N is the
\* first item, the only one the microphone is used on.
C28_StoppedBeforeNextPrompt ==
  [][(Stepped /\ lastOp' = "prompt" /\ currentIndex = 1)
       => \A r \in Slots : sessions[r].status \notin {"starting", "running"}]_vars

\* C29: when the dwell of a submission of the mounted quiz elapses and more
\* items remain, the one step sets feedback to idle, empties userInput and
\* adds 1 to currentIndex, and leaves results and shuffledWords as they are;
\* when none remain, the step calls onFinish with the results and moves
\* nothing on: the QuizScreen leaves the screen, its state gone with it.
C29_DwellTransition ==
  [][(Stepped /\ lastOp' \in {"dwell:next", "dwell:onFinish"})
       => /\ mounted /\ feedback # "idle"
          /\ IF currentIndex < Len(shuffledWords) - 1
             THEN /\ lastOp' = "dwell:next"
                  /\ feedback' = "idle"
                  /\ userInput' = <<>>
                  /\ currentIndex' = currentIndex + 1
                  /\ results' = results
                  /\ shuffledWords' = shuffledWords
                  /\ UNCHANGED appVars
             ELSE /\ lastOp' = "dwell:onFinish"
                  /\ screen' = "RESULT"
                  /\ quizResults' = results
                  /\ ~mounted'
                  /\ <<currentIndex', feedback', userInput'>> = <<0, "idle", <<>>>>]_vars

\* The dwell of the first of two items has elapsed after a typed answer.
C29_Witness ==
  /\ lastOp = "dwell:next" /\ mounted
  /\ currentIndex = 1 /\ feedback = "idle" /\ userInput = <<>>
  /\ Len(results) = 1 /\ results[1].userAnswer # <<>>

\* C30: while a quiz is mounted, 0 <= currentIndex < the length of
\* shuffledWords; a step of the quiz leaves currentIndex as it is or adds 1 to
\* it, so it never goes down.
C30_PositionBounded ==
  /\ [](mounted => (0 <= currentIndex /\ currentIndex < Len(shuffledWords)))
  /\ [][(mounted /\ mounted')
          => (currentIndex' = currentIndex \/ currentIndex' = currentIndex + 1)]_vars

\* The last of two items has been submitted: the index is at its greatest.
C30_Witness ==
  /\ mounted /\ Len(shuffledWords) = 2
  /\ currentIndex = 1 /\ feedback # "idle" /\ Len(results) = 2

\* The item on the screen entered idle in this step: the quiz was mounted, the
\* dwell moved on to the next item, or the settings of the voice changed.
EnteredIdle ==
  /\ mounted' /\ feedback' = "idle"
  /\ \/ ~mounted
     \/ currentIndex' # currentIndex
     \/ speechRate' # speechRate

\* C31: every automatic prompt speaks the text of the item that is current
\* when the prompt timer fires, and only while feedback is idle: a pending
\* prompt timer is for the current item of a mounted quiz in idle, it goes away
\* only by firing, by the submission or by the exit, and an item that enters
\* idle gets its timer, which speaks that item when it fires.
C31_PromptSpeaksCurrentItem ==
  /\ [](promptTimer # {} =>
          /\ mounted /\ feedback = "idle"
          /\ \A t \in promptTimer : t.text = currentWord.english)
  /\ [][Stepped /\ lastOp' = "prompt" =>
          /\ mounted /\ feedback = "idle" /\ feedback' = "idle"
          /\ ssSupported =>
               /\ Len(utterances') = 1
               /\ utterances'[1].text = currentWord.english]_vars
  /\ [][Stepped /\ EnteredIdle =>
          promptTimer' = {[text |-> shuffledWords'[currentIndex' + 1].english,
                           gender |-> voiceGender', uri |-> specificVoiceURI',
                           rate |-> speechRate']}]_vars
  /\ [][Stepped /\ promptTimer # {} /\ promptTimer' = {} =>
          \/ lastOp' = "prompt"
          \/ ~mounted'
          \/ feedback' # "idle"]_vars

\* The prompt of the second item has been spoken, after the first item was
\* submitted and its dwell elapsed.
C31_Witness ==
  /\ mounted /\ currentIndex = 1 /\ feedback = "idle"
  /\ lastOp = "prompt"
  /\ Len(results) = 1
  /\ Len(utterances) = 1
  /\ utterances[1].text = currentWord.english

\* The steps of the microphone button.
Switched ==
  lastOp' \in {"toggleListening:start", "toggleListening:stop", "toggleListening:alert"}

\* C32: switching between typing and listening does not clear the input: the
\* microphone button, starting or stopping, leaves userInput as it was, and
\* while the quiz stays mounted userInput changes only by a typed edit, which
\* needs the microphone off, by a transcript event, which sets it to the
\* running cleaned transcript of its session, or by the clear of the dwell
\* that moves to the next item; each of these leaves its own value there.
C32_ModalityKeepsInput ==
  [][Stepped /\ mounted /\ mounted' =>
       /\ Switched => userInput' = userInput
       /\ lastOp' = "dwell:next" => userInput' = <<>>
       /\ lastOp' = "onresult" =>
            \E r \in Slots : /\ sessions'[r].frags # sessions[r].frags
                            /\ userInput' = Running(sessions'[r].frags)
       /\ lastOp' = "onChange" => userInput' \in TypedInputs /\ ~isListening
       /\ userInput' # userInput =>
            lastOp' \in {"onChange", "onresult", "dwell:next"}]_vars

\* The learner typed "cat" and then started the microphone: the input is
\* still "cat".
C32_Witness ==
  /\ mounted /\ lastOp = "toggleListening:start"
  /\ recognitionRef # 0
  /\ userInput = <<"c", "a", "t">>

\* The capture sessions of the mounted quiz that are running: started, their
\* onstart delivered, neither stopped nor ended nor failed.
RunningSessions ==
  {r \in Slots : sessions[r].live /\ sessions[r].status = "running"}

\* The onend of a session on which stop() had been called leaves isListening
\* true when another session is running.
C33_LateEndOfStoppedSession ==
  [][\A r \in Slots :
       (/\ Stepped /\ lastOp' = "onend"
        /\ sessions[r].live /\ sessions[r].status = "stopping"
        /\ sessions'[r].status # "stopping"
        /\ RunningSessions # {}
        /\ isListening)
       => isListening']_vars

\* C33 (as claimed): isListening agrees with the engine: it is true exactly
\* when a capture session of the quiz is running, and the onend or onerror of
\* an earlier session never sets it to false while another session is running.
C33_ListeningAgreesWithEngine ==
  /\ [](isListening <=> RunningSessions # {})
  /\ [][(/\ Stepped /\ lastOp' \in {"onend", "onerror"}
         /\ isListening
         /\ RunningSessions' # {})
        => isListening']_vars
  /\ C33_LateEndOfStoppedSession

\* C34 (as claimed): a list with total > 0 is Perfect, and the win sound is
\* played for it, if and only if every record of it is correct.
C34_PerfectIffAllCorrect ==
  (screen = "RESULT" /\ Len(quizResults) > 0) =>
    /\ isPerfect <=> Cardinality(Right) = Len(quizResults)
    /\ outcomeClass = "Perfect" <=> Cardinality(Right) = Len(quizResults)
    /\ lastOp = "playSound.win" => Cardinality(Right) = Len(quizResults)

\* C34 (amended): a list with total > 0 is Perfect, and the win sound is
\* played for it, if and only if at least 99.5 percent of its records are
\* correct, the share that rounds to 100; for a list of fewer than 200 records
\* that is if and only if every record is correct.
C34_PerfectIffRoundsTo100 ==
  (screen = "RESULT" /\ Len(quizResults) > 0) =>
    /\ isPerfect <=> 200 * Cardinality(Right) >= 199 * Len(quizResults)
    /\ outcomeClass = "Perfect" <=> 200 * Cardinality(Right) >= 199 * Len(quizResults)
    /\ lastOp = "playSound.win" => 200 * Cardinality(Right) >= 199 * Len(quizResults)
    /\ lastOp \in {"playSound.lose", "playSound:none"} =>
         200 * Cardinality(Right) < 199 * Len(quizResults)
    /\ Len(quizResults) < 200 =>
         (isPerfect <=> Cardinality(Right) = Len(quizResults))

\* The win sound was played for a list of 200 records of which one is wrong.
C34_Witness ==
  /\ screen = "RESULT" /\ lastOp = "playSound.win"
  /\ Len(quizResults) = 200
  /\ Cardinality(Right) = 199

\* The name carries a keyword of the female voices.
FemaleNamed(v) == \E k \in femaleKeywords : NameHas(v.name, k)

\* C35 (as claimed): when the male gender is asked for and no URI matches, a
\* voice taken by the male keyword match has no female keyword in its name;
\* no voice of the catalog is matched by both keyword lists.
C35_MaleKeywordNeverFemale ==
  (SpokeUnnamed /\ voiceGender = "male") =>
    /\ utterances[1].pitch = 10 => ~FemaleNamed(utterances[1].voice)
    /\ keywordVoices(voices, maleKeywords) \cap keywordVoices(voices, femaleKeywords) = {}

\* The list is the complete result list of the quiz on the screen: one record
\* for each of its items, in the order they were asked.
CompleteFor(res, ws) ==
  /\ Len(res) = Len(ws)
  /\ \A i \in 1..Len(ws) : res[i].word = ws[i]

\* C36 (as claimed): whenever the RESULT screen is shown the stored result
\* list is not empty, and it is the complete result list of the quiz started
\* last: the list stored when a quiz on the screen is replaced by the RESULT
\* screen is that quiz's complete list, and it stays as it is while the RESULT
\* screen is shown.
C36_ResultOfLatestQuiz ==
  /\ [](screen = "RESULT" => Len(quizResults) > 0)
  /\ [][(Stepped /\ mounted /\ screen' = "RESULT") =>
          CompleteFor(quizResults', shuffledWords)]_vars
  /\ [][(screen = "RESULT" /\ screen' = "RESULT") =>
          quizResults' = quizResults]_vars

\* The same for the steps in which no timeout of an exited or replaced quiz
\* fires.
C36_WithoutStaleTimeouts ==
  /\ [](screen = "RESULT" => Len(quizResults) > 0)
  /\ [][(/\ Stepped /\ mounted /\ screen' = "RESULT"
         /\ lastOp' \notin {"dwell:onFinish:exited", "dwell:onFinish:replaced"}) =>
          CompleteFor(quizResults', shuffledWords)]_vars
  /\ [][(/\ screen = "RESULT" /\ screen' = "RESULT"
         /\ lastOp' \notin {"dwell:onFinish:exited", "dwell:onFinish:replaced"}) =>
          quizResults' = quizResults]_vars

====
